---- MODULE Spec2Model ----
(***************************************************************************)
(* Model of the ItIsPay Go client (package itispay): the request-execution *)
(* routine Client.doRequest, the seven endpoint methods built on it, and   *)
(* the pure helpers they call (query construction, URL parsing, JSON field *)
(* mapping).                                                               *)
(*                                                                         *)
(* Text that the code inspects character by character (request paths,      *)
(* invoice ids, query values) is a sequence of one-character strings.      *)
(* Text that the code only carries around (response bodies, API keys,      *)
(* JSON string values) is a TLA+ string.                                   *)
(***************************************************************************)
EXTENDS Integers, Sequences, FiniteSets, TLC

(***************************************************************************)
(* Bounds of the model.                                                    *)
(***************************************************************************)
\* longest invoice id enumerated over IdChars
MaxIdLen == 2

\* goroutines calling the same Client at once
NumCallers == 2

(***************************************************************************)
(* Characters and their byte order.                                        *)
(***************************************************************************)
\* the characters the model uses, in ascending byte (ASCII) order
Ascii ==
  << "#", "%", "&", "+", "-", "/",
     "0", "1", "2", "3", "4", "5", "6", "7", "8", "9",
     ":", "=", "?",
     "A", "B", "C", "D", "E", "F", "T", "Z",
     "_",
     "a", "b", "c", "d", "e", "f", "g", "i", "k", "n", "o", "p", "r",
     "s", "t", "u", "v", "w", "x", "y", "z" >>

Code(c) == CHOOSE i \in 1..Len(Ascii) : Ascii[i] = c

Digits == <<"0", "1", "2", "3", "4", "5", "6", "7", "8", "9">>

HexDigits ==
  {"0", "1", "2", "3", "4", "5", "6", "7", "8", "9",
   "a", "b", "c", "d", "e", "f", "A", "B", "C", "D", "E", "F"}

\* bytes that url.QueryEscape and url.PathEscape leave alone
Unreserved ==
  {"0", "1", "2", "3", "4", "5", "6", "7", "8", "9",
   "A", "B", "C", "D", "E", "F", "T", "Z", "_", "-",
   "a", "b", "c", "d", "e", "f", "g", "i", "k", "n", "o", "p", "r",
   "s", "t", "u", "v", "w", "x", "y", "z"}

\* the %XX form of a reserved byte
PercentOf(c) ==
  CASE c = "#" -> <<"%", "2", "3">>
    [] c = "%" -> <<"%", "2", "5">>
    [] c = "&" -> <<"%", "2", "6">>
    [] c = "+" -> <<"%", "2", "B">>
    [] c = "/" -> <<"%", "2", "F">>
    [] c = ":" -> <<"%", "3", "A">>
    [] c = "=" -> <<"%", "3", "D">>
    [] c = "?" -> <<"%", "3", "F">>

\* strings.Compare on two character sequences: TRUE iff a < b bytewise
RECURSIVE StrLess(_, _)
StrLess(a, b) ==
  IF b = <<>> THEN FALSE
  ELSE IF a = <<>> THEN TRUE
  ELSE IF Head(a) = Head(b) THEN StrLess(Tail(a), Tail(b))
  ELSE Code(Head(a)) < Code(Head(b))

\* index of the first occurrence of character c in s, 0 when absent
IndexByte(s, c) ==
  IF \E i \in 1..Len(s) : s[i] = c
  THEN CHOOSE i \in 1..Len(s) : s[i] = c /\ \A j \in 1..(i - 1) : s[j] # c
  ELSE 0

\* strings.Cut(s, c): the text before and after the first c
Cut(s, c) ==
  LET i == IndexByte(s, c)
  IN  IF i = 0
      THEN [before |-> s, after |-> <<>>, found |-> FALSE]
      ELSE [before |-> SubSeq(s, 1, i - 1),
            after  |-> SubSeq(s, i + 1, Len(s)),
            found  |-> TRUE]

\* strings.Split(s, c)
RECURSIVE Split(_, _)
Split(s, c) ==
  LET r == Cut(s, c)
  IN  IF r.found THEN <<r.before>> \o Split(r.after, c) ELSE <<s>>

\* fmt.Sprintf("%d", n)
RECURSIVE FormatNat(_)
FormatNat(n) ==
  IF n < 10 THEN <<Digits[n + 1]>>
  ELSE FormatNat(n \div 10) \o <<Digits[(n % 10) + 1]>>

FormatInt(n) == IF n < 0 THEN <<"-">> \o FormatNat(0 - n) ELSE FormatNat(n)

\* a decimal number left-padded with zeros to width w
RECURSIVE Pad(_, _)
Pad(n, w) == IF w = 0 THEN <<>> ELSE Pad(n \div 10, w - 1) \o <<Digits[(n % 10) + 1]>>

(***************************************************************************)
(* net/url as the client uses it.                                          *)
(***************************************************************************)
\* url.QueryEscape: unreserved bytes stay, every other byte becomes %XX
RECURSIVE QueryEscape(_)
QueryEscape(s) ==
  IF s = <<>> THEN <<>>
  ELSE (IF Head(s) \in Unreserved THEN <<Head(s)>> ELSE PercentOf(Head(s)))
       \o QueryEscape(Tail(s))

\* every % in s is followed by two hex digits (net/url unescape succeeds)
ValidEscapes(s) ==
  \A i \in 1..Len(s) :
    s[i] = "%" => /\ i + 2 <= Len(s)
                  /\ s[i + 1] \in HexDigits
                  /\ s[i + 2] \in HexDigits

\* url.Values{}
EmptyValues == [k \in {} |-> <<>>]

\* url.Values.Set(key, value)
SetValue(v, key, value) ==
  [k \in (DOMAIN v) \cup {key} |-> IF k = key THEN value ELSE v[k]]

\* the keys of a url.Values in ascending byte order
RECURSIVE SortedKeys(_)
SortedKeys(S) ==
  IF S = {} THEN <<>>
  ELSE LET m == CHOOSE k \in S : \A o \in S \ {k} : StrLess(k, o)
       IN  <<m>> \o SortedKeys(S \ {m})

\* the query keys of ListInvoices
k_page           == <<"p", "a", "g", "e">>
k_page_size      == <<"p", "a", "g", "e", "_", "s", "i", "z", "e">>
k_status         == <<"s", "t", "a", "t", "u", "s">>
k_currency       == <<"c", "u", "r", "r", "e", "n", "c", "y">>
k_created_after  == <<"c", "r", "e", "a", "t", "e", "d", "_", "a", "f", "t", "e", "r">>
k_created_before == <<"c", "r", "e", "a", "t", "e", "d", "_", "b", "e", "f", "o", "r", "e">>
k_sort_by        == <<"s", "o", "r", "t", "_", "b", "y">>
k_sort_order     == <<"s", "o", "r", "t", "_", "o", "r", "d", "e", "r">>

\* the keys in the order ListInvoices tests and sets them
SetOrder ==
  << k_page, k_page_size, k_status, k_currency,
     k_created_after, k_created_before, k_sort_by, k_sort_order >>

\* the members of S in the order of the sequence ord
RECURSIVE Restrict(_, _)
Restrict(ord, S) ==
  IF ord = <<>> THEN <<>>
  ELSE (IF Head(ord) \in S THEN <<Head(ord)>> ELSE <<>>) \o Restrict(Tail(ord), S)

\* a variant of EncodeOrder: the keys in the order they were set
EncodeOrderAsSet(S) == Restrict(SetOrder, S)

\* the order in which url.Values.Encode writes the keys: sorted by key
EncodeOrder(S) == SortedKeys(S)

RECURSIVE EncodeKeys(_, _)
EncodeKeys(v, keys) ==
  IF keys = <<>> THEN <<>>
  ELSE QueryEscape(Head(keys)) \o <<"=">> \o QueryEscape(v[Head(keys)])
       \o (IF Len(keys) > 1 THEN <<"&">> ELSE <<>>)
       \o EncodeKeys(v, Tail(keys))

\* url.Values.Encode
Encode(v) == EncodeKeys(v, EncodeOrder(DOMAIN v))

(***************************************************************************)
(* time.Time, restricted to UTC instants with whole seconds.               *)
(***************************************************************************)
\* the zero value of time.Time: January 1, year 1, 00:00:00 UTC
ZeroTime == [y |-> 1, mo |-> 1, d |-> 1, h |-> 0, mi |-> 0, s |-> 0]

\* time.Time.IsZero
IsZero(t) == t = ZeroTime

\* time.Time.Format(time.RFC3339) of a UTC instant
RFC3339(t) ==
  Pad(t.y, 4) \o <<"-">> \o Pad(t.mo, 2) \o <<"-">> \o Pad(t.d, 2) \o <<"T">>
  \o Pad(t.h, 2) \o <<":">> \o Pad(t.mi, 2) \o <<":">> \o Pad(t.s, 2) \o <<"Z">>

(***************************************************************************)
(* ListInvoices: query construction.                                       *)
(***************************************************************************)
s_invoices == <<"/", "i", "n", "v", "o", "i", "c", "e", "s">>

\* a variant of PageSet: a page of zero is sent too
PageSetNonNegative(page) == page >= 0

\* the test ListInvoices applies to Page
PageSet(page) == page > 0

\* the url.Values ListInvoices builds from its params
QueryParams(params) ==
  LET q1 == IF PageSet(params.Page)
            THEN SetValue(EmptyValues, k_page, FormatInt(params.Page))
            ELSE EmptyValues
      q2 == IF params.PageSize > 0
            THEN SetValue(q1, k_page_size, FormatInt(params.PageSize)) ELSE q1
      q3 == IF params.Status # <<>>
            THEN SetValue(q2, k_status, params.Status) ELSE q2
      q4 == IF params.Currency # <<>>
            THEN SetValue(q3, k_currency, params.Currency) ELSE q3
      q5 == IF ~IsZero(params.CreatedAfter)
            THEN SetValue(q4, k_created_after, RFC3339(params.CreatedAfter)) ELSE q4
      q6 == IF ~IsZero(params.CreatedBefore)
            THEN SetValue(q5, k_created_before, RFC3339(params.CreatedBefore)) ELSE q5
      q7 == IF params.SortBy # <<>>
            THEN SetValue(q6, k_sort_by, params.SortBy) ELSE q6
      q8 == IF params.SortOrder # <<>>
            THEN SetValue(q7, k_sort_order, params.SortOrder) ELSE q7
  IN  q8

\* the request path ListInvoices hands to doRequest
ListInvoicesPath(params) ==
  LET queryParams == QueryParams(params)
  IN  IF Cardinality(DOMAIN queryParams) > 0
      THEN s_invoices \o <<"?">> \o Encode(queryParams)
      ELSE s_invoices

(***************************************************************************)
(* http.NewRequestWithContext: parsing baseURL + path.                     *)
(*                                                                         *)
(* The base URL is the constant DefaultBaseURL, which holds no '#', '?' or  *)
(* '%'; the parse of baseURL + path is therefore the parse of path with    *)
(* the base URL's scheme, host and path prefix in front.                   *)
(***************************************************************************)
DefaultBaseURL == "https://api.itispay.com/api/v1"

\* url.Parse of baseURL + path: the fragment is cut at the first '#', the
\* query at the first '?' of what is left, and the path and the fragment
\* must unescape
ParseURL(base, path) ==
  LET f == Cut(path, "#")
      q == Cut(f.before, "?")
  IN  [ok       |-> ValidEscapes(q.before) /\ ValidEscapes(f.after),
       Base     |-> base,
       Path     |-> q.before,
       RawQuery |-> q.after,
       Fragment |-> f.after]

(***************************************************************************)
(* encoding/json: field mapping.                                           *)
(*                                                                         *)
(* A JSON document is its value tree; the text of a document is kept       *)
(* beside it (bodies below) and is never parsed character by character.    *)
(* float64 values are whole numbers, NaN or +Inf.                          *)
(***************************************************************************)
JNull   == [t |-> "null"]
JStr(s) == [t |-> "str", s |-> s]
JNum(n) == [t |-> "num", n |-> n]
JBool(b) == [t |-> "bool", b |-> b]
JObj(o) == [t |-> "obj", o |-> o]
JArr(a) == [t |-> "arr", a |-> a]

\* Go types as the decoder sees them
TString == [k |-> "string"]
TInt    == [k |-> "int"]
TFloat  == [k |-> "float64"]
TBool   == [k |-> "bool"]
TSlice(elem) == [k |-> "slice", elem |-> elem]
TMap(elem)   == [k |-> "map", elem |-> elem]
\* fields: Go field name -> [key: the json tag, T: the field's type]
TStruct(fields) == [k |-> "struct", fields |-> fields]

\* the zero value of a Go type
RECURSIVE Zero(_)
Zero(T) ==
  CASE T.k = "string"  -> ""
    [] T.k = "int"     -> 0
    [] T.k = "float64" -> 0
    [] T.k = "bool"    -> FALSE
    [] T.k = "slice"   -> <<>>
    [] T.k = "map"     -> <<>>
    [] T.k = "struct"  -> [f \in DOMAIN T.fields |-> Zero(T.fields[f].T)]

\* json.Unmarshal of a JSON value into a zero value of type T: null leaves
\* the zero value, an absent key leaves the field, a value of the wrong JSON
\* type is an error
RECURSIVE Decode(_, _)
Decode(T, v) ==
  LET fail == [ok |-> FALSE, val |-> Zero(T)]
  IN
  IF v.t = "null" THEN [ok |-> TRUE, val |-> Zero(T)]
  ELSE
  CASE T.k = "string"  -> IF v.t = "str" THEN [ok |-> TRUE, val |-> v.s] ELSE fail
    [] T.k = "int"     -> IF v.t = "num" THEN [ok |-> TRUE, val |-> v.n] ELSE fail
    [] T.k = "float64" -> IF v.t = "num" THEN [ok |-> TRUE, val |-> v.n] ELSE fail
    [] T.k = "bool"    -> IF v.t = "bool" THEN [ok |-> TRUE, val |-> v.b] ELSE fail
    [] T.k = "slice"   ->
         IF v.t = "arr"
         THEN LET r == [i \in 1..Len(v.a) |-> Decode(T.elem, v.a[i])]
              IN  [ok  |-> \A i \in 1..Len(v.a) : r[i].ok,
                   val |-> [i \in 1..Len(v.a) |-> r[i].val]]
         ELSE fail
    [] T.k = "map"     ->
         IF v.t = "obj"
         THEN LET r == [key \in DOMAIN v.o |-> Decode(T.elem, v.o[key])]
              IN  [ok  |-> \A key \in DOMAIN v.o : r[key].ok,
                   val |-> [key \in DOMAIN v.o |-> r[key].val]]
         ELSE fail
    [] T.k = "struct"  ->
         IF v.t = "obj"
         THEN LET r == [f \in DOMAIN T.fields |->
                          IF T.fields[f].key \in DOMAIN v.o
                          THEN Decode(T.fields[f].T, v.o[T.fields[f].key])
                          ELSE [ok |-> TRUE, val |-> Zero(T.fields[f].T)]]
              IN  [ok  |-> \A f \in DOMAIN T.fields : r[f].ok,
                   val |-> [f \in DOMAIN T.fields |-> r[f].val]]
         ELSE fail

\* a response body: its text, whether the text is JSON, and then its value
TextBody(raw)      == [raw |-> raw, valid |-> FALSE, val |-> JNull]
JSONBody(raw, val) == [raw |-> raw, valid |-> TRUE, val |-> val]

\* json.Unmarshal(body, &v) with v of type T
Unmarshal(T, body) ==
  IF body.valid THEN Decode(T, body.val) ELSE [ok |-> FALSE, val |-> Zero(T)]

(***************************************************************************)
(* The typed records (the fields the model follows).                       *)
(***************************************************************************)
ErrorResponseT ==
  TStruct([Error   |-> [key |-> "error",   T |-> TString],
           Message |-> [key |-> "message", T |-> TString]])

InvoiceT ==
  TStruct([InvoiceID  |-> [key |-> "invoice_id",  T |-> TString],
           Status     |-> [key |-> "status",      T |-> TString],
           FiatAmount |-> [key |-> "fiat_amount", T |-> TFloat]])

PaginationInfoT ==
  TStruct([CurrentPage |-> [key |-> "current_page", T |-> TInt],
           HasNext     |-> [key |-> "has_next",     T |-> TBool]])

ListInvoicesResponseT ==
  TStruct([Data       |-> [key |-> "data",       T |-> TSlice(InvoiceT)],
           Pagination |-> [key |-> "pagination", T |-> PaginationInfoT]])

CurrencyT ==
  TStruct([CurrencyCode |-> [key |-> "currency_code", T |-> TString],
           Precision    |-> [key |-> "precision",     T |-> TInt]])

RatesResponseT ==
  TStruct([Rates |-> [key |-> "rates", T |-> TMap(TFloat)]])

WebhookSimulateResponseT ==
  TStruct([Status  |-> [key |-> "status",  T |-> TString],
           Message |-> [key |-> "message", T |-> TString]])

\* float64 values a caller can put behind a *float64
Float(n) == [special |-> FALSE, n |-> n]
NaN      == [special |-> TRUE, n |-> 0]

\* a variant of MarshalCreateInvoiceRequest: omitempty on plain numbers, so a
\* zero is left out like an unset field
MarshalCreateInvoiceRequestByValue(r) ==
  LET keys ==
        {"order_id", "currency"}
        \cup (IF r.FiatAmount # <<>> /\ r.FiatAmount[1] # Float(0)
              THEN {"fiat_amount"} ELSE {})
        \cup (IF r.CryptoAmount # <<>> /\ r.CryptoAmount[1] # Float(0)
              THEN {"crypto_amount"} ELSE {})
        \cup (IF r.AllowedErrorPercent \notin {<<>>, <<0>>}
              THEN {"allowed_error_percent"} ELSE {})
        \cup (IF r.ExpireMin \notin {<<>>, <<0>>} THEN {"expire_min"} ELSE {})
      value(k) ==
        CASE k = "order_id"      -> JStr(r.OrderID)
          [] k = "currency"      -> JStr(r.Currency)
          [] k = "fiat_amount"   -> JNum(r.FiatAmount[1].n)
          [] k = "crypto_amount" -> JNum(r.CryptoAmount[1].n)
          [] k = "allowed_error_percent" -> JNum(r.AllowedErrorPercent[1])
          [] k = "expire_min"    -> JNum(r.ExpireMin[1])
  IN  [ok  |-> /\ (r.FiatAmount # <<>> => ~r.FiatAmount[1].special)
               /\ (r.CryptoAmount # <<>> => ~r.CryptoAmount[1].special),
       val |-> JObj([k \in keys |-> value(k)])]

\* json.Marshal of a CreateInvoiceRequest: order_id and currency are always
\* written, a nil pointer under omitempty is left out, a set pointer is
\* written with the value it points to, and NaN or Inf is an error
MarshalCreateInvoiceRequest(r) ==
  LET keys ==
        {"order_id", "currency"}
        \cup (IF r.FiatAmount # <<>> THEN {"fiat_amount"} ELSE {})
        \cup (IF r.CryptoAmount # <<>> THEN {"crypto_amount"} ELSE {})
        \cup (IF r.AllowedErrorPercent # <<>> THEN {"allowed_error_percent"} ELSE {})
        \cup (IF r.ExpireMin # <<>> THEN {"expire_min"} ELSE {})
      value(k) ==
        CASE k = "order_id"      -> JStr(r.OrderID)
          [] k = "currency"      -> JStr(r.Currency)
          [] k = "fiat_amount"   -> JNum(r.FiatAmount[1].n)
          [] k = "crypto_amount" -> JNum(r.CryptoAmount[1].n)
          [] k = "allowed_error_percent" -> JNum(r.AllowedErrorPercent[1])
          [] k = "expire_min"    -> JNum(r.ExpireMin[1])
  IN  [ok  |-> /\ (r.FiatAmount # <<>> => ~r.FiatAmount[1].special)
               /\ (r.CryptoAmount # <<>> => ~r.CryptoAmount[1].special),
       val |-> JObj([k \in keys |-> value(k)])]

\* a variant of Marshal: a value json cannot encode is not reported
MarshalUnchecked(b) == [ok |-> TRUE, val |-> JNull]

\* json.Marshal(body) for the three payload types doRequest is given
Marshal(b) ==
  CASE b.type = "CreateInvoiceRequest" -> MarshalCreateInvoiceRequest(b.v)
    [] b.type = "UpdateInvoiceRequest" ->
         [ok |-> TRUE, val |-> JObj([status |-> JStr(b.v.Status)])]
    [] b.type = "WebhookSimulateRequest" ->
         [ok |-> TRUE,
          val |-> JObj([invoice_id |-> JStr(b.v.InvoiceID),
                        status     |-> JStr(b.v.Status)])]

(***************************************************************************)
(* Errors and results.                                                     *)
(***************************************************************************)
\* a nil error
NoError ==
  [type |-> "nil", origin |-> "", cause |-> "",
   StatusCode |-> 0, ErrorType |-> "", Message |-> ""]

\* fmt.Errorf(origin + ": %w", cause)
WrapError(origin, cause) ==
  [type |-> "error", origin |-> origin, cause |-> cause,
   StatusCode |-> 0, ErrorType |-> "", Message |-> ""]

\* fmt.Errorf("HTTP %d: %s", status, raw)
HTTPStatusError(status, raw) ==
  [type |-> "error", origin |-> "HTTP %d: %s", cause |-> "",
   StatusCode |-> status, ErrorType |-> "", Message |-> raw]

\* &APIError{StatusCode, ErrorType, Message}
APIError(status, errorType, message) ==
  [type |-> "APIError", origin |-> "", cause |-> "",
   StatusCode |-> status, ErrorType |-> errorType, Message |-> message]

\* a variant of IsHTTPError: redirects count as failures
IsHTTPErrorFrom300(status) == status >= 300

\* a variant of IsHTTPError: status 400 itself is let through
IsHTTPErrorAbove(status) == status > 400

\* the status test of doRequest
IsHTTPError(status) == status >= 400

\* doRequest from the status check on: (respBody, err)
CheckStatus(status, body) ==
  IF IsHTTPError(status)
  THEN LET apiError == Unmarshal(ErrorResponseT, body)
       IN  IF ~apiError.ok
           THEN [respBody |-> <<>>, err |-> HTTPStatusError(status, body.raw)]
           ELSE [respBody |-> <<>>,
                 err |-> APIError(status, apiError.val.Error, apiError.val.Message)]
  ELSE [respBody |-> <<body>>, err |-> NoError]

\* the type each endpoint method unmarshals a successful body into
ResultT(op) ==
  CASE op \in {"CreateInvoice", "GetInvoice", "UpdateInvoiceStatus"} -> InvoiceT
    [] op = "ListInvoices"    -> ListInvoicesResponseT
    [] op = "GetCurrencies"   -> TSlice(CurrencyT)
    [] op = "GetRates"        -> RatesResponseT
    [] op = "SimulateWebhook" -> WebhookSimulateResponseT

\* a variant of ResultOf: the currencies are collected back to front
ResultOfReversed(op, val) ==
  IF op = "GetCurrencies"
  THEN [Currencies |-> [i \in 1..Len(val) |-> val[Len(val) + 1 - i]]]
  ELSE val

\* the value an endpoint method returns a pointer to
ResultOf(op, val) ==
  IF op = "GetCurrencies" THEN [Currencies |-> val] ELSE val

\* a variant of EndpointReturn: on a decode failure the partly filled value
\* is returned beside the error
EndpointReturnPartial(op, r) ==
  IF r.err.type # "nil"
  THEN [res |-> <<>>, err |-> r.err]
  ELSE LET d == Unmarshal(ResultT(op), r.respBody[1])
       IN  [res |-> <<ResultOf(op, d.val)>>,
            err |-> IF d.ok THEN NoError
                    ELSE WrapError("failed to unmarshal response", "json")]

\* an endpoint method after doRequest returned r: (result, err)
EndpointReturn(op, r) ==
  IF r.err.type # "nil"
  THEN [res |-> <<>>, err |-> r.err]
  ELSE LET d == Unmarshal(ResultT(op), r.respBody[1])
       IN  IF ~d.ok
           THEN [res |-> <<>>,
                 err |-> WrapError("failed to unmarshal response", "json")]
           ELSE [res |-> <<ResultOf(op, d.val)>>, err |-> NoError]

\* doRequest returned (nil, err)
Failed(op, origin, cause) ==
  EndpointReturn(op, [respBody |-> <<>>, err |-> WrapError(origin, cause)])

\* a variant of RequestHeader: the key header is set even when the key is empty
RequestHeaderAlways(apiKey) ==
  [h \in {"Content-Type", "Api-key"} |->
     IF h = "Content-Type" THEN "application/json" ELSE apiKey]

\* the headers doRequest sets on every request (net/http writes the key
\* header's name in its canonical form; header names are case-insensitive)
RequestHeader(apiKey) ==
  [h \in {"Content-Type"} \cup (IF apiKey # "" THEN {"Api-key"} ELSE {}) |->
     IF h = "Content-Type" THEN "application/json" ELSE apiKey]

\* a variant of RequestContext: the request is built without the caller's context
RequestContextBackground(callerCtx) == "active"

\* the context http.NewRequestWithContext binds the request to
RequestContext(callerCtx) == callerCtx

(***************************************************************************)
(* Inputs.                                                                 *)
(***************************************************************************)
ApiKeys == {"", "secret-key"}

IdChars == {"a", "/", "?", "#", "%"}

inv1 == <<"i", "n", "v", "1">>

\* invoice ids: every text over IdChars up to MaxIdLen, and a plain id
Ids == {inv1} \cup UNION {[1..n -> IdChars] : n \in 0..MaxIdLen}

\* status codes a server can answer with
Statuses == {200, 399, 400, 401}

B_notjson == TextBody("not json")
B_empty   == TextBody("")
B_null    == JSONBody("null", JNull)
B_error ==
  JSONBody("{\"error\":\"invalid_key\",\"message\":\"API key is invalid\"}",
           JObj([error |-> JStr("invalid_key"), message |-> JStr("API key is invalid")]))
B_badtype ==
  JSONBody("{\"error\":5,\"message\":\"m\"}",
           JObj([error |-> JNum(5), message |-> JStr("m")]))
J_invoice ==
  JObj([invoice_id |-> JStr("inv1"), status |-> JStr("new"), fiat_amount |-> JNum(100)])
B_invoice ==
  JSONBody("{\"invoice_id\":\"inv1\",\"status\":\"new\",\"fiat_amount\":100}", J_invoice)
B_list ==
  JSONBody("{\"data\":[{\"invoice_id\":\"inv1\",\"status\":\"new\",\"fiat_amount\":100}],\"pagination\":{\"current_page\":2,\"has_next\":true}}",
           JObj([data |-> JArr(<<J_invoice>>),
                 pagination |-> JObj([current_page |-> JNum(2), has_next |-> JBool(TRUE)])]))
B_currencies ==
  JSONBody("[{\"currency_code\":\"BTC\",\"precision\":8},{\"currency_code\":\"ETH\",\"precision\":18}]",
           JArr(<< JObj([currency_code |-> JStr("BTC"), precision |-> JNum(8)]),
                   JObj([currency_code |-> JStr("ETH"), precision |-> JNum(18)]) >>))
B_nocurrencies == JSONBody("[]", JArr(<<>>))
B_rates ==
  JSONBody("{\"rates\":{\"BTC\":65000}}",
           JObj([rates |-> JObj([BTC |-> JNum(65000)])]))
B_webhook ==
  JSONBody("{\"status\":\"ok\",\"message\":\"sent\"}",
           JObj([status |-> JStr("ok"), message |-> JStr("sent")]))

\* bodies a server can answer with
Bodies ==
  { B_notjson, B_empty, B_null, B_error, B_badtype,
    B_invoice, B_list, B_currencies, B_nocurrencies, B_rates, B_webhook }

T1 == [y |-> 2024, mo |-> 1, d |-> 15, h |-> 10, mi |-> 30, s |-> 0]

s_new        == <<"n", "e", "w">>
s_inject     == <<"x", "&", "p", "a", "g", "e", "=", "1">>
s_BTC        == <<"B", "T", "C">>
s_created_at == <<"c", "r", "e", "a", "t", "e", "d", "_", "a", "t">>
s_asc        == <<"a", "s", "c">>

ListInvoicesParamsSet ==
  [Page : {-1, 0, 2}, PageSize : {0, 10},
   Status : {<<>>, s_new, s_inject}, Currency : {<<>>, s_BTC},
   CreatedAfter : {ZeroTime, T1}, CreatedBefore : {ZeroTime, T1},
   SortBy : {<<>>, s_created_at}, SortOrder : {<<>>, s_asc}]

CreateInvoiceRequests ==
  [OrderID : {"order-1"}, Currency : {"BTC"},
   FiatAmount : {<<>>, <<Float(0)>>, <<Float(100)>>, <<NaN>>},
   CryptoAmount : {<<>>, <<Float(0)>>, <<NaN>>},
   AllowedErrorPercent : {<<>>, <<0>>, <<5>>},
   ExpireMin : {<<>>, <<0>>, <<30>>}]

(***************************************************************************)
(* State.                                                                  *)
(***************************************************************************)
VARIABLES
  c,      \* the Client: baseURL and apiKey
  pc,     \* where the current call is: idle, do, waiting, headers, done
  call,   \* the current call: endpoint, arguments, and what it hands doRequest
  ctx,    \* the caller's context for the current call: active or cancelled
  req,    \* the *http.Request doRequest built, if any
  sent,   \* the requests the current call handed to httpClient.Do to send
  resp,   \* the *http.Response of the current call, if any
  ret,    \* what the endpoint method returned: result pointer and error
  tasks,  \* calls running concurrently on the Client: each goroutine's locals
  bufs    \* the buffers those calls allocated: request and response bytes

vars == <<c, pc, call, ctx, req, sent, resp, ret, tasks, bufs>>

\* the goroutines that share the Client
Callers == 1..NumCallers

\* buffer addresses: one per caller, and address 0, which no call allocates
Addrs == 0..NumCallers

NoBuffers == [reqBody |-> <<>>, respBody |-> <<>>]

IdleTask ==
  [pc |-> "idle", op |-> "none", arg |-> <<>>, body |-> <<>>, req |-> <<>>,
   sent |-> <<>>, status |-> <<>>, served |-> <<>>,
   ret |-> [res |-> <<>>, err |-> NoError]]

NoCall ==
  [op |-> "none", arg |-> <<>>, method |-> "", path |-> <<>>, body |-> <<>>,
   ctx0 |-> "active"]

NoReturn == [res |-> <<>>, err |-> NoError]

\* NewClient(apiKey)
Init ==
  /\ c \in [baseURL : {DefaultBaseURL}, apiKey : ApiKeys]
  /\ pc = "idle"
  /\ call = NoCall
  /\ ctx = "active"
  /\ req = <<>>
  /\ sent = <<>>
  /\ resp = <<>>
  /\ ret = NoReturn
  /\ tasks = [t \in Callers |-> IdleTask]
  /\ bufs = [a \in Addrs |-> NoBuffers]

(***************************************************************************)
(* doRequest up to the call of httpClient.Do: marshal the payload, build   *)
(* the request against baseURL + path, set the headers.  The caller makes  *)
(* the call with a context that is active or already cancelled.            *)
(***************************************************************************)
Begin(op, arg, method, path, body, ctx0) ==
  /\ call' = [op |-> op, arg |-> arg, method |-> method, path |-> path,
              body |-> body, ctx0 |-> ctx0]
  /\ ctx' = ctx0
  /\ sent' = <<>>
  /\ resp' = <<>>
  /\ LET m == IF body # <<>> THEN Marshal(body[1]) ELSE [ok |-> TRUE, val |-> JNull]
         u == ParseURL(c.baseURL, path)
     IN  IF ~m.ok
         THEN /\ req' = <<>>
              /\ ret' = Failed(op, "failed to marshal request body", "json")
              /\ pc' = "done"
         ELSE IF ~u.ok
         THEN /\ req' = <<>>
              /\ ret' = Failed(op, "failed to create request", "url")
              /\ pc' = "done"
         ELSE /\ req' = << [Method |-> method,
                            URL    |-> u,
                            Header |-> RequestHeader(c.apiKey),
                            Body   |-> IF body # <<>> THEN <<m.val>> ELSE <<>>] >>
              /\ ret' = NoReturn
              /\ pc' = "do"
  /\ UNCHANGED <<c, tasks, bufs>>

s_slash      == <<"/">>
s_currencies == <<"/", "c", "u", "r", "r", "e", "n", "c", "i", "e", "s">>
s_rates      == <<"/", "r", "a", "t", "e", "s">>
s_simulate   ==
  <<"/", "w", "e", "b", "h", "o", "o", "k", "s", "/",
    "s", "i", "m", "u", "l", "a", "t", "e">>

CreateInvoice ==
  \E r \in CreateInvoiceRequests, ctx0 \in {"active", "cancelled"} :
    /\ pc = "idle"
    /\ Begin("CreateInvoice", r, "POST", s_invoices,
             << [type |-> "CreateInvoiceRequest", v |-> r] >>, ctx0)

GetInvoice ==
  \E invoiceID \in Ids, ctx0 \in {"active", "cancelled"} :
    /\ pc = "idle"
    /\ Begin("GetInvoice", [invoiceID |-> invoiceID], "GET",
             s_invoices \o s_slash \o invoiceID, <<>>, ctx0)

ListInvoices ==
  \E params \in ListInvoicesParamsSet, ctx0 \in {"active", "cancelled"} :
    /\ pc = "idle"
    /\ Begin("ListInvoices", params, "GET", ListInvoicesPath(params), <<>>, ctx0)

GetCurrencies ==
  \E ctx0 \in {"active", "cancelled"} :
    /\ pc = "idle"
    /\ Begin("GetCurrencies", <<>>, "GET", s_currencies, <<>>, ctx0)

GetRates ==
  \E ctx0 \in {"active", "cancelled"} :
    /\ pc = "idle"
    /\ Begin("GetRates", <<>>, "GET", s_rates, <<>>, ctx0)

UpdateInvoiceStatus ==
  \E invoiceID \in Ids, status \in {"completed"}, ctx0 \in {"active", "cancelled"} :
    /\ pc = "idle"
    /\ Begin("UpdateInvoiceStatus", [invoiceID |-> invoiceID, status |-> status],
             "PATCH", s_invoices \o s_slash \o invoiceID,
             << [type |-> "UpdateInvoiceRequest", v |-> [Status |-> status]] >>, ctx0)

SimulateWebhook ==
  \E invoiceID \in {inv1}, status \in {"completed", ""},
     ctx0 \in {"active", "cancelled"} :
    /\ pc = "idle"
    /\ Begin("SimulateWebhook", [invoiceID |-> invoiceID, status |-> status],
             "POST", s_simulate,
             << [type |-> "WebhookSimulateRequest",
                 v |-> [InvoiceID |-> invoiceID, Status |-> status]] >>, ctx0)

(***************************************************************************)
(* c.httpClient.Do(req) and io.ReadAll(resp.Body).                         *)
(***************************************************************************)
\* the call returns to its caller
Finish(r) ==
  /\ ret' = r
  /\ pc' = "done"

\* httpClient.Do is entered: a request whose context is already done is
\* refused before anything is written, otherwise the request goes out
Do ==
  /\ pc = "do"
  /\ IF RequestContext(ctx) = "cancelled"
     THEN /\ Finish(Failed(call.op, "failed to execute request", "context canceled"))
          /\ UNCHANGED sent
     ELSE /\ sent' = Append(sent, req[1])
          /\ pc' = "waiting"
          /\ UNCHANGED ret
  /\ UNCHANGED <<c, tasks, bufs,call, ctx, req, resp>>

\* the caller cancels the context, or its deadline passes, during the call
Cancel ==
  /\ pc \in {"do", "waiting", "headers"}
  /\ ctx = "active"
  /\ ctx' = "cancelled"
  /\ UNCHANGED <<c, tasks, bufs,pc, call, req, sent, resp, ret>>

\* the server's status line and headers arrive: Do returns the response
ServerRespond ==
  /\ pc = "waiting"
  /\ \E status \in Statuses : resp' = << [StatusCode |-> status, body |-> <<>>] >>
  /\ pc' = "headers"
  /\ UNCHANGED <<c, tasks, bufs,call, ctx, req, sent, ret>>

\* a variant of TransportFailure: the request is tried again
TransportFailureRetry ==
  /\ pc = "waiting"
  /\ pc' = "do"
  /\ UNCHANGED <<c, tasks, bufs,call, ctx, req, sent, resp, ret>>

\* Do fails: connection refused, DNS, TLS, reset
TransportFailure ==
  /\ pc = "waiting"
  /\ Finish(Failed(call.op, "failed to execute request", "network"))
  /\ UNCHANGED <<c, tasks, bufs,call, ctx, req, sent, resp>>

\* Do is woken by the request's context
ContextDone ==
  /\ pc = "waiting"
  /\ RequestContext(ctx) = "cancelled"
  /\ Finish(Failed(call.op, "failed to execute request", "context canceled"))
  /\ UNCHANGED <<c, tasks, bufs,call, ctx, req, sent, resp>>

\* the http.Client's own Timeout (DefaultTimeout) expires
ClientTimeout ==
  /\ \/ /\ pc = "waiting"
        /\ Finish(Failed(call.op, "failed to execute request", "Client.Timeout exceeded"))
     \/ /\ pc = "headers"
        /\ Finish(Failed(call.op, "failed to read response body", "Client.Timeout exceeded"))
  /\ UNCHANGED <<c, tasks, bufs,call, ctx, req, sent, resp>>

\* a variant of ReadFailure: a broken read is reported as an API error with the
\* status that had arrived
ReadFailureAsAPIError ==
  /\ pc = "headers"
  /\ Finish([res |-> <<>>, err |-> APIError(resp[1].StatusCode, "", "")])
  /\ UNCHANGED <<c, tasks, bufs, call, ctx, req, sent, resp>>

\* io.ReadAll fails: the connection breaks while the body is read
ReadFailure ==
  /\ pc = "headers"
  /\ Finish(Failed(call.op, "failed to read response body", "network"))
  /\ UNCHANGED <<c, tasks, bufs,call, ctx, req, sent, resp>>

\* io.ReadAll is woken by the request's context
ReadCancelled ==
  /\ pc = "headers"
  /\ RequestContext(ctx) = "cancelled"
  /\ Finish(Failed(call.op, "failed to read response body", "context canceled"))
  /\ UNCHANGED <<c, tasks, bufs,call, ctx, req, sent, resp>>

\* io.ReadAll returns the whole body; doRequest checks the status and the
\* endpoint method decodes what doRequest returns
ReadBody ==
  /\ pc = "headers"
  /\ \E body \in Bodies :
       /\ resp' = << [resp[1] EXCEPT !.body = <<body>>] >>
       /\ Finish(EndpointReturn(call.op, CheckStatus(resp[1].StatusCode, body)))
  /\ UNCHANGED <<c, tasks, bufs,call, ctx, req, sent>>

\* the caller has the outcome; the client keeps nothing of the call
Return ==
  /\ pc = "done"
  /\ pc' = "idle"
  /\ call' = NoCall
  /\ ctx' = "active"
  /\ req' = <<>>
  /\ sent' = <<>>
  /\ resp' = <<>>
  /\ ret' = NoReturn
  /\ UNCHANGED <<c, tasks, bufs>>

Next ==
  \/ CreateInvoice
  \/ GetInvoice
  \/ ListInvoices
  \/ GetCurrencies
  \/ GetRates
  \/ UpdateInvoiceStatus
  \/ SimulateWebhook
  \/ Do
  \/ Cancel
  \/ ServerRespond
  \/ TransportFailure
  \/ ContextDone
  \/ ClientTimeout
  \/ ReadFailure
  \/ ReadCancelled
  \/ ReadBody
  \/ Return

Spec == Init /\ [][Next]_vars

\* the steps no one has to wait for: the call's own code moves on, and a
\* transport blocked on a request whose context is done is woken
FairSpec ==
  /\ Spec
  /\ WF_vars(Do)
  /\ WF_vars(ContextDone)
  /\ WF_vars(ReadCancelled)

TypeOK ==
  /\ pc \in {"idle", "do", "waiting", "headers", "done"}
  /\ ctx \in {"active", "cancelled"}
  /\ Len(sent) \in {0, 1}

(***************************************************************************)
(* Calls running concurrently on one Client.                               *)
(*                                                                         *)
(* Each goroutine runs doRequest with its own locals (tasks[t]); what it   *)
(* shares with the others is the Client c and, through pointers, whatever  *)
(* buffers it uses: the request body buffer the transport reads when it    *)
(* sends, and the response bytes the decoders read.  A buffer is named by  *)
(* its address, so that a buffer used by two calls is one cell.            *)
(* Cancellation is left to the sequential specification above.             *)
(***************************************************************************)
r_plain ==
  [OrderID |-> "order-1", Currency |-> "BTC", FiatAmount |-> <<Float(100)>>,
   CryptoAmount |-> <<>>, AllowedErrorPercent |-> <<>>, ExpireMin |-> <<>>]

r_nan == [r_plain EXCEPT !.FiatAmount = <<NaN>>]

\* ids the concurrent GetInvoice calls use: a plain one, one that turns into a
\* query, one that does not parse
ConcIds == {inv1, <<"?", "a">>, <<"%">>}

\* the calls the goroutines make
ConcCalls ==
  { [op |-> "GetInvoice", arg |-> [invoiceID |-> id], method |-> "GET",
     path |-> s_invoices \o s_slash \o id, body |-> <<>>] : id \in ConcIds }
  \cup
  { [op |-> "CreateInvoice", arg |-> r_nan, method |-> "POST",
     path |-> s_invoices,
     body |-> << [type |-> "CreateInvoiceRequest", v |-> r_nan] >>],
    [op |-> "CreateInvoice", arg |-> r_plain, method |-> "POST",
     path |-> s_invoices,
     body |-> << [type |-> "CreateInvoiceRequest", v |-> r_plain] >>],
    [op |-> "UpdateInvoiceStatus",
     arg |-> [invoiceID |-> inv1, status |-> "completed"], method |-> "PATCH",
     path |-> s_invoices \o s_slash \o inv1,
     body |-> << [type |-> "UpdateInvoiceRequest", v |-> [Status |-> "completed"]] >>] }

ConcStatuses == {200, 401}

ConcBodies == {B_invoice, B_error}

\* a variant of CallBuffers: one buffer kept for all calls
CallBuffersShared(t) == 0

\* where a call's buffers live: bytes.NewBuffer and io.ReadAll allocate anew
\* in each call, so the address is the call's own
CallBuffers(t) == t

SeqVars == <<pc, call, ctx, req, sent, resp, ret>>

\* doRequest up to httpClient.Do, leaving the Client as newC
TBeginWith(t, newC) ==
  /\ tasks[t].pc = "idle"
  /\ \E k \in ConcCalls :
       LET m == IF k.body # <<>> THEN Marshal(k.body[1]) ELSE [ok |-> TRUE, val |-> JNull]
           u == ParseURL(c.baseURL, k.path)
           mine == [IdleTask EXCEPT !.op = k.op, !.arg = k.arg, !.body = k.body]
       IN  IF ~m.ok
           THEN /\ tasks' = [tasks EXCEPT ![t] =
                      [mine EXCEPT !.pc = "done",
                                   !.ret = Failed(k.op, "failed to marshal request body", "json")]]
                /\ UNCHANGED bufs
           ELSE IF ~u.ok
           THEN /\ tasks' = [tasks EXCEPT ![t] =
                      [mine EXCEPT !.pc = "done",
                                   !.ret = Failed(k.op, "failed to create request", "url")]]
                /\ UNCHANGED bufs
           ELSE /\ tasks' = [tasks EXCEPT ![t] =
                      [mine EXCEPT !.pc = "do",
                                   !.req = << [Method |-> k.method,
                                               URL    |-> u,
                                               Header |-> RequestHeader(c.apiKey),
                                               Body   |-> IF k.body # <<>>
                                                          THEN <<CallBuffers(t)>>
                                                          ELSE <<>>] >>]]
                /\ bufs' = IF k.body # <<>>
                           THEN [bufs EXCEPT ![CallBuffers(t)].reqBody = <<m.val>>]
                           ELSE bufs
  /\ c' = newC
  /\ UNCHANGED SeqVars

\* a variant of TBegin: the path is appended to the Client's base URL in place
TBeginGrowsBaseURL(t) ==
  TBeginWith(t, [c EXCEPT !.baseURL = "https://api.itispay.com/api/v1/invoices"])

\* doRequest up to httpClient.Do: the Client is only read
TBegin(t) == TBeginWith(t, c)

\* httpClient.Do writes the request, reading the body from its buffer
TDo(t) ==
  /\ tasks[t].pc = "do"
  /\ LET r == tasks[t].req[1]
     IN  tasks' = [tasks EXCEPT ![t].pc = "waiting",
                                ![t].sent = << [r EXCEPT !.Body =
                                     IF r.Body = <<>> THEN <<>>
                                     ELSE bufs[r.Body[1]].reqBody] >>]
  /\ UNCHANGED <<c, bufs, SeqVars>>

\* the server answers this call: status line and headers arrive
TServerRespond(t) ==
  /\ tasks[t].pc = "waiting"
  /\ \E status \in ConcStatuses, body \in ConcBodies :
       tasks' = [tasks EXCEPT ![t].pc = "headers",
                              ![t].status = <<status>>,
                              ![t].served = << [StatusCode |-> status, body |-> body] >>]
  /\ UNCHANGED <<c, bufs, SeqVars>>

\* Do fails for this call
TTransportFailure(t) ==
  /\ tasks[t].pc = "waiting"
  /\ tasks' = [tasks EXCEPT ![t].pc = "done",
                            ![t].ret = Failed(tasks[t].op, "failed to execute request", "network")]
  /\ UNCHANGED <<c, bufs, SeqVars>>

\* io.ReadAll stores the body the server sent to this call
TReadBody(t) ==
  /\ tasks[t].pc = "headers"
  /\ bufs' = [bufs EXCEPT ![CallBuffers(t)].respBody = <<tasks[t].served[1].body>>]
  /\ tasks' = [tasks EXCEPT ![t].pc = "read"]
  /\ UNCHANGED <<c, SeqVars>>

\* the status check and the decoders read the stored body
THandle(t) ==
  /\ tasks[t].pc = "read"
  /\ LET stored == bufs[CallBuffers(t)].respBody
         respBody == IF stored = <<>> THEN B_empty ELSE stored[1]
     IN  tasks' = [tasks EXCEPT ![t].pc = "done",
                                ![t].ret = EndpointReturn(tasks[t].op,
                                             CheckStatus(tasks[t].status[1], respBody))]
  /\ UNCHANGED <<c, bufs, SeqVars>>

\* the call is over: its locals and buffers are garbage
TReturn(t) ==
  /\ tasks[t].pc = "done"
  /\ tasks' = [tasks EXCEPT ![t] = IdleTask]
  /\ bufs' = [bufs EXCEPT ![CallBuffers(t)] = NoBuffers]
  /\ UNCHANGED <<c, SeqVars>>

ConcNext ==
  \E t \in Callers :
    \/ TBegin(t)
    \/ TDo(t)
    \/ TServerRespond(t)
    \/ TTransportFailure(t)
    \/ TReadBody(t)
    \/ THandle(t)
    \/ TReturn(t)

ConcSpec == Init /\ [][ConcNext]_vars

(***************************************************************************)
(* What the properties below read off a state.                             *)
(***************************************************************************)
Returned == pc = "done"

\* the whole response was received: status and body
Answered == resp # <<>> /\ resp[1].body # <<>>

RespStatus == resp[1].StatusCode
RespBody   == resp[1].body[1]

\* the body is a JSON object with string fields `error` and `message`
IsErrorObject(b) ==
  /\ b.valid
  /\ b.val.t = "obj"
  /\ {"error", "message"} \subseteq DOMAIN b.val.o
  /\ b.val.o["error"].t = "str"
  /\ b.val.o["message"].t = "str"

\* the parameters of a ListInvoicesParams value that are not at their default
NonDefaultKeys(p) ==
  (IF p.Page > 0 THEN {k_page} ELSE {})
  \cup (IF p.PageSize > 0 THEN {k_page_size} ELSE {})
  \cup (IF p.Status # <<>> THEN {k_status} ELSE {})
  \cup (IF p.Currency # <<>> THEN {k_currency} ELSE {})
  \cup (IF p.CreatedAfter # ZeroTime THEN {k_created_after} ELSE {})
  \cup (IF p.CreatedBefore # ZeroTime THEN {k_created_before} ELSE {})
  \cup (IF p.SortBy # <<>> THEN {k_sort_by} ELSE {})
  \cup (IF p.SortOrder # <<>> THEN {k_sort_order} ELSE {})

\* the keys of the query string of a path, in the order they are written
QueryKeySeq(path) ==
  LET q == Cut(path, "?")
      pairs == Split(q.after, "&")
  IN  IF ~q.found THEN <<>>
      ELSE [i \in 1..Len(pairs) |-> Cut(pairs[i], "=").before]

QueryKeySet(path) == {QueryKeySeq(path)[i] : i \in 1..Len(QueryKeySeq(path))}

\* the query keys in ascending byte order
ByteOrder ==
  << k_created_after, k_created_before, k_currency, k_page,
     k_page_size, k_sort_by, k_sort_order, k_status >>

\* url.PathEscape of an id: only unreserved bytes stay
RECURSIVE PathEscape(_)
PathEscape(s) ==
  IF s = <<>> THEN <<>>
  ELSE (IF Head(s) \in Unreserved THEN <<Head(s)>> ELSE PercentOf(Head(s)))
       \o PathEscape(Tail(s))

\* the payload holds a value json.Marshal cannot encode
Unserializable(b) ==
  /\ b.type = "CreateInvoiceRequest"
  /\ \/ b.v.FiatAmount # <<>> /\ b.v.FiatAmount[1].special
     \/ b.v.CryptoAmount # <<>> /\ b.v.CryptoAmount[1].special

\* the error says the context was cancelled or its deadline passed
IsCancellation(e) ==
  /\ e.type = "error"
  /\ e.origin \in {"failed to execute request", "failed to read response body"}
  /\ e.cause = "context canceled"

(***************************************************************************)
(* C1.  Whenever a call of any endpoint method got a response with status  *)
(* >= 400 whose body is an object with `error` and `message`, it returns   *)
(* no result and an APIError carrying that status, the body's `error` as   *)
(* ErrorType and the body's `message` as Message.                          *)
(***************************************************************************)
C1_StructuredErrorIsAPIError ==
  (Returned /\ Answered /\ RespStatus >= 400 /\ IsErrorObject(RespBody))
    => /\ ret.res = <<>>
       /\ ret.err.type = "APIError"
       /\ ret.err.StatusCode = RespStatus
       /\ ret.err.ErrorType = RespBody.val.o["error"].s
       /\ ret.err.Message = RespBody.val.o["message"].s

C1_Witness ==
  /\ Returned /\ Answered /\ RespStatus = 401 /\ RespBody = B_error
  /\ call.op = "GetInvoice"
  /\ ret.err.type = "APIError" /\ ret.err.ErrorType = "invalid_key"

(***************************************************************************)
(* C2.  Whenever a call got a response with status >= 400 whose body does  *)
(* not decode as the structured error object, it returns no result and an  *)
(* APIError with that status, an empty ErrorType and the raw body text as  *)
(* Message.                                                                *)
(***************************************************************************)
C2_RawBodyFallbackIsAPIError ==
  (Returned /\ Answered /\ RespStatus >= 400
     /\ ~Unmarshal(ErrorResponseT, RespBody).ok)
    => /\ ret.res = <<>>
       /\ ret.err.type = "APIError"
       /\ ret.err.StatusCode = RespStatus
       /\ ret.err.ErrorType = ""
       /\ ret.err.Message = RespBody.raw

(***************************************************************************)
(* C3.  A call that has returned, whatever its outcome, returned exactly   *)
(* one of a non-nil result and a non-nil error.                            *)
(***************************************************************************)
C3_ResultXorError ==
  Returned => ((ret.res # <<>>) # (ret.err.type # "nil"))

C3_Witness ==
  /\ Returned /\ Answered /\ RespStatus < 400
  /\ ~Unmarshal(ResultT(call.op), RespBody).ok
  /\ ret.res = <<>> /\ ret.err.origin = "failed to unmarshal response"

(***************************************************************************)
(* C4.  The path ListInvoices builds holds a query key iff its parameter   *)
(* is not at its default; with every parameter at its default the path is  *)
(* exactly /invoices, with no '?'.                                         *)
(***************************************************************************)
C4_QueryKeyIffNonDefault ==
  call.op = "ListInvoices"
    => /\ Cut(call.path, "?").before = s_invoices
       /\ QueryKeySet(call.path) = NonDefaultKeys(call.arg)
       /\ Len(QueryKeySeq(call.path)) = Cardinality(NonDefaultKeys(call.arg))
       /\ (NonDefaultKeys(call.arg) = {} => call.path = s_invoices)

C4_Witness ==
  /\ call.op = "ListInvoices" /\ sent # <<>>
  /\ call.arg.Page = 0 /\ call.arg.PageSize = 10
  /\ call.arg.Status = s_inject /\ call.arg.Currency = <<>>
  /\ call.arg.CreatedAfter = T1 /\ call.arg.CreatedBefore = ZeroTime
  /\ QueryKeySet(call.path) = {k_page_size, k_status, k_created_after}

(***************************************************************************)
(* C5 as claimed.  The keys of the query string stand in the order page,   *)
(* page_size, status, currency, created_after, created_before, sort_by,    *)
(* sort_order.                                                             *)
(***************************************************************************)
C5_KeysInPrecedenceOrder ==
  call.op = "ListInvoices"
    => QueryKeySeq(call.path) = Restrict(SetOrder, NonDefaultKeys(call.arg))

(***************************************************************************)
(* C5 as amended.  The keys of the query string stand in ascending byte    *)
(* order of the key (created_after, created_before, currency, page,        *)
(* page_size, sort_by, sort_order, status), each followed by '=' and its   *)
(* escaped value, so the path is a function of the params value.           *)
(***************************************************************************)
C5_KeysInByteOrder ==
  call.op = "ListInvoices"
    => QueryKeySeq(call.path) = Restrict(ByteOrder, NonDefaultKeys(call.arg))

C5_Witness ==
  /\ call.op = "ListInvoices" /\ sent # <<>>
  /\ QueryKeySeq(call.path) = <<k_currency, k_page, k_status>>

(***************************************************************************)
(* C6.  The request GetInvoice builds is a GET whose path is /invoices/    *)
(* followed by the path-escaped id, with no query string and no fragment,  *)
(* whatever characters the id holds.                                       *)
(***************************************************************************)
C6_InvoiceIdIsPathEscaped ==
  (call.op = "GetInvoice" /\ pc # "idle")
    => /\ ret.err.origin # "failed to create request"
       /\ req # <<>>
            => /\ req[1].Method = "GET"
               /\ req[1].URL.Path = s_invoices \o s_slash \o PathEscape(call.arg.invoiceID)
               /\ req[1].URL.RawQuery = <<>>
               /\ req[1].URL.Fragment = <<>>

(***************************************************************************)
(* C7.  A call whose payload cannot be serialized returns a local error,   *)
(* not a transport error and not an APIError, and no request is built or   *)
(* sent for it.                                                            *)
(***************************************************************************)
C7_MarshalFailureIsLocal ==
  (call.body # <<>> /\ Unserializable(call.body[1]))
    => /\ Returned
       /\ req = <<>> /\ sent = <<>> /\ resp = <<>>
       /\ ret.res = <<>>
       /\ ret.err.type = "error"
       /\ ret.err.origin = "failed to marshal request body"

C7_Witness ==
  /\ Returned /\ call.op = "CreateInvoice"
  /\ call.body[1].v.FiatAmount = <<NaN>>
  /\ ret.err.origin = "failed to marshal request body"

(***************************************************************************)
(* C8.  Every request written to the network carries Content-Type:         *)
(* application/json, and carries the Api-key header, with the configured   *)
(* key as its value, iff the client's key is not empty.                    *)
(***************************************************************************)
C8_HeadersOnEveryRequest ==
  \A i \in 1..Len(sent) :
    LET h == sent[i].Header
    IN  /\ "Content-Type" \in DOMAIN h
        /\ h["Content-Type"] = "application/json"
        /\ ("Api-key" \in DOMAIN h) <=> (c.apiKey # "")
        /\ ("Api-key" \in DOMAIN h) => h["Api-key"] = c.apiKey

C8_Witness ==
  /\ sent # <<>> /\ call.op = "SimulateWebhook"
  /\ c.apiKey = "secret-key"
  /\ sent[1].Header["Api-key"] = "secret-key"

(***************************************************************************)
(* C9.  A call writes at most one request to the network, and a call that  *)
(* met a transport failure, a read failure, a status >= 400 or a body it   *)
(* cannot decode returns that failure, having sent the one request.        *)
(***************************************************************************)
C9_AtMostOneRequestPerCall ==
  /\ Len(sent) <= 1
  /\ (Returned /\ sent # <<>>
        /\ \/ ~Answered
           \/ RespStatus >= 400
           \/ ~Unmarshal(ResultT(call.op), RespBody).ok)
       => /\ ret.err.type # "nil"
          /\ ret.res = <<>>

C9_Witness ==
  /\ Returned /\ Len(sent) = 1 /\ resp = <<>>
  /\ ret.err.origin = "failed to execute request" /\ ret.err.cause = "network"

AloneOutcome(t) ==
  LET k == CHOOSE k \in ConcCalls : k.op = tasks[t].op /\ k.arg = tasks[t].arg
  IN  IF k.body # <<>> /\ Unserializable(k.body[1])
      THEN Failed(k.op, "failed to marshal request body", "json")
      ELSE IF ~ParseURL(DefaultBaseURL, k.path).ok
      THEN Failed(k.op, "failed to create request", "url")
      ELSE IF tasks[t].served = <<>>
      THEN Failed(k.op, "failed to execute request", "network")
      ELSE EndpointReturn(k.op,
             CheckStatus(tasks[t].served[1].StatusCode, tasks[t].served[1].body))

\* the body call t sends when it runs alone
AloneBody(t) ==
  IF tasks[t].body = <<>> THEN <<>> ELSE << Marshal(tasks[t].body[1]).val >>

(***************************************************************************)
(* C11.  With any number of calls running concurrently on one Client, in   *)
(* any interleaving: no step changes the Client's base URL or API key; the *)
(* request a call sends carries its own serialized payload; and what a     *)
(* call returns is what it would return alone against the response served  *)
(* to it, never another call's response body or error.                     *)
(***************************************************************************)
C11_CallsDoNotInterfere ==
  /\ [][c' = c]_vars
  /\ [](\A t \in Callers :
          /\ tasks[t].sent # <<>> => tasks[t].sent[1].Body = AloneBody(t)
          /\ tasks[t].pc = "done" => tasks[t].ret = AloneOutcome(t))

C11_Witness ==
  \E t, u \in Callers :
    /\ t # u
    /\ tasks[t].pc = "done" /\ tasks[u].pc = "done"
    /\ tasks[t].op = "CreateInvoice" /\ tasks[u].op = "UpdateInvoiceStatus"
    /\ tasks[t].sent # <<>> /\ tasks[u].sent # <<>>
    /\ tasks[t].sent[1].Body # tasks[u].sent[1].Body
    /\ tasks[t].served # <<>> /\ tasks[u].served # <<>>
    /\ tasks[t].served[1] # tasks[u].served[1]
    /\ tasks[t].ret.res # <<>> /\ tasks[u].ret.err.type = "APIError"

\* the JSON object a sent CreateInvoice request carries
SentObject == sent[1].Body[1].o

\* key k is in the sent object iff pointer p is set, and then with number n
OptionalNumberSent(k, p, n) ==
  /\ k \in DOMAIN SentObject <=> p # <<>>
  /\ p # <<>> => SentObject[k] = JNum(n)

(***************************************************************************)
(* C12.  In the body of every CreateInvoice request that is sent, each of  *)
(* fiat_amount, crypto_amount, allowed_error_percent and expire_min is     *)
(* present iff the field is set; an unset field has no key at all (no 0,   *)
(* no null), and a field set to zero is sent as the number 0.              *)
(***************************************************************************)
C12_OptionalNumberIffSet ==
  (call.op = "CreateInvoice" /\ sent # <<>>)
    => /\ sent[1].Body # <<>> /\ sent[1].Body[1].t = "obj"
       /\ OptionalNumberSent("fiat_amount", call.arg.FiatAmount,
                             IF call.arg.FiatAmount = <<>> THEN 0
                             ELSE call.arg.FiatAmount[1].n)
       /\ OptionalNumberSent("crypto_amount", call.arg.CryptoAmount,
                             IF call.arg.CryptoAmount = <<>> THEN 0
                             ELSE call.arg.CryptoAmount[1].n)
       /\ OptionalNumberSent("allowed_error_percent", call.arg.AllowedErrorPercent,
                             IF call.arg.AllowedErrorPercent = <<>> THEN 0
                             ELSE call.arg.AllowedErrorPercent[1])
       /\ OptionalNumberSent("expire_min", call.arg.ExpireMin,
                             IF call.arg.ExpireMin = <<>> THEN 0
                             ELSE call.arg.ExpireMin[1])

C12_Witness ==
  /\ call.op = "CreateInvoice" /\ sent # <<>>
  /\ call.arg.FiatAmount = <<Float(0)>> /\ call.arg.CryptoAmount = <<>>
  /\ call.arg.AllowedErrorPercent = <<>> /\ call.arg.ExpireMin = <<0>>
  /\ DOMAIN SentObject = {"order_id", "currency", "fiat_amount", "expire_min"}
  /\ SentObject["fiat_amount"] = JNum(0) /\ SentObject["expire_min"] = JNum(0)

\* the body is a JSON array of objects with a currency_code and a precision
IsCurrencyArray(b) ==
  /\ b.valid /\ b.val.t = "arr"
  /\ \A i \in 1..Len(b.val.a) :
       /\ b.val.a[i].t = "obj"
       /\ {"currency_code", "precision"} \subseteq DOMAIN b.val.a[i].o
       /\ b.val.a[i].o["currency_code"].t = "str"
       /\ b.val.a[i].o["precision"].t = "num"

(***************************************************************************)
(* C13.  When GetCurrencies gets a response with status < 400 whose body   *)
(* is a bare JSON array of currency objects, it returns a wrapper with as  *)
(* many currencies as the array has elements, in the array's order, the    *)
(* i-th currency holding the fields of the i-th element.                   *)
(***************************************************************************)
C13_CurrenciesInArrayOrder ==
  ( /\ Returned /\ call.op = "GetCurrencies"
    /\ Answered /\ RespStatus < 400 /\ IsCurrencyArray(RespBody) )
    => /\ ret.err.type = "nil" /\ Len(ret.res) = 1
       /\ LET cs == ret.res[1].Currencies
              a  == RespBody.val.a
          IN  /\ Len(cs) = Len(a)
              /\ \A i \in 1..Len(a) :
                   /\ cs[i].CurrencyCode = a[i].o["currency_code"].s
                   /\ cs[i].Precision = a[i].o["precision"].n

C13_Witness ==
  /\ Returned /\ call.op = "GetCurrencies"
  /\ Answered /\ RespStatus = 200 /\ RespBody = B_currencies
  /\ Len(ret.res) = 1 /\ Len(ret.res[1].Currencies) = 2
  /\ ret.res[1].Currencies[1].CurrencyCode = "BTC"
  /\ ret.res[1].Currencies[2].CurrencyCode = "ETH"

\* the endpoint's decoder accepts the body
Decodable(op, b) == Unmarshal(ResultT(op), b).ok

(***************************************************************************)
(* C15.  For every endpoint method, a response with status < 400 (3xx and  *)
(* an empty body included) never gives an APIError: if the body decodes    *)
(* into the endpoint's type the method returns the decoded value and a nil *)
(* error, otherwise no value and a local decode error.                     *)
(***************************************************************************)
C15_BelowFourHundredIsDecoded ==
  (Returned /\ Answered /\ RespStatus < 400)
    => /\ ret.err.type # "APIError"
       /\ Decodable(call.op, RespBody)
            => /\ ret.err.type = "nil"
               /\ Len(ret.res) = 1
               /\ ret.res[1] =
                    IF call.op = "GetCurrencies"
                    THEN [Currencies |-> Unmarshal(ResultT(call.op), RespBody).val]
                    ELSE Unmarshal(ResultT(call.op), RespBody).val
       /\ ~Decodable(call.op, RespBody)
            => /\ ret.res = <<>>
               /\ ret.err.type = "error"
               /\ ret.err.origin = "failed to unmarshal response"

C15_Witness ==
  /\ Returned /\ Answered /\ RespStatus = 399
  /\ call.op = "GetRates" /\ RespBody = B_empty
  /\ ret.res = <<>> /\ ret.err.origin = "failed to unmarshal response"

(***************************************************************************)
(* C16.  In every call of every sequence of calls, an APIError is returned *)
(* only when a response with status >= 400 was received whole, and its     *)
(* StatusCode is that status; a call that failed to marshal, to build the  *)
(* request, in transport (cancellation included) or while reading the body *)
(* returns an error that is not an APIError, whatever status had arrived.  *)
(***************************************************************************)
C16_APIErrorOnlyFromResponse ==
  /\ (Returned /\ ret.err.type = "APIError")
       => /\ Answered
          /\ RespStatus >= 400
          /\ ret.err.StatusCode = RespStatus
  /\ (Returned /\ ~Answered)
       => /\ ret.res = <<>>
          /\ ret.err.type = "error"
          /\ ret.err.origin \in {"failed to marshal request body",
                                 "failed to create request",
                                 "failed to execute request",
                                 "failed to read response body"}

C16_Witness ==
  /\ Returned /\ resp # <<>> /\ resp[1].StatusCode >= 400 /\ ~Answered
  /\ ret.err.type = "error"
  /\ ret.err.origin = "failed to read response body"

\* the server answered both calls alike, or answered neither
SameServerAnswer(t, u) == tasks[t].served = tasks[u].served

(***************************************************************************)
(* C14.  Two GetInvoice calls with the same id on one Client, answered     *)
(* alike by the server, send identical requests and return equal results   *)
(* or equal errors; the Client is the same after the first call as before  *)
(* it.                                                                     *)
(***************************************************************************)
C14_GetInvoiceTwiceIsEqual ==
  \A t, u \in Callers :
    ( /\ tasks[t].pc = "done" /\ tasks[u].pc = "done"
      /\ tasks[t].op = "GetInvoice" /\ tasks[u].op = "GetInvoice"
      /\ tasks[t].arg = tasks[u].arg
      /\ SameServerAnswer(t, u) )
    => /\ tasks[t].sent = tasks[u].sent
       /\ tasks[t].ret = tasks[u].ret
       /\ c = [baseURL |-> DefaultBaseURL, apiKey |-> c.apiKey]

C14_Witness ==
  \E t, u \in Callers :
    /\ t # u
    /\ tasks[t].pc = "done" /\ tasks[u].pc = "done"
    /\ tasks[t].op = "GetInvoice" /\ tasks[u].op = "GetInvoice"
    /\ tasks[t].arg = tasks[u].arg
    /\ tasks[t].arg.invoiceID = inv1
    /\ tasks[t].served # <<>> /\ SameServerAnswer(t, u)
    /\ tasks[t].served[1].StatusCode = 200
    /\ tasks[t].ret.res # <<>> /\ tasks[t].ret = tasks[u].ret

====
